---------------------------- MODULE Spec2Model ----------------------------
(***************************************************************************)
(* Model of the fantasy trade calculator (src/src/nrl_trade_calculator.py):*)
(* the consistency and rolling-average calculators, the priority rule      *)
(* cascade, the combination search and the calculate_trade_options         *)
(* pipeline.                                                               *)
(*                                                                         *)
(* A DataFrame is a sequence of rows in frame order.  A row of the         *)
(* consolidated data is a record                                           *)
(*   [Player, Round, Team, POS, Age, Price, Total_base,                    *)
(*    Base_exceeds_price_premium]                                          *)
(* named after the columns the code reads.                                 *)
(***************************************************************************)
EXTENDS Integers, Sequences, FiniteSets, TLC

VARIABLES
    consolidated_data,   \* the history table handed to the operation
    request,             \* the operation called and its arguments
    pc,                  \* "ready" before the call, "done" after it returned
    result,              \* what the call returned (or that it raised)
    priority_groups,     \* the caller's dict level -> list of candidates
    valid_combinations,  \* the search's list of accepted combinations
    previous_result      \* what the call before the last one returned

vars == <<consolidated_data, request, pc, result, priority_groups, valid_combinations,
          previous_result>>

(***************************************************************************)
(* Bounds of the model.                                                    *)
(***************************************************************************)
MaxRound == 4

\* None for the position_requirement argument, a set of positions otherwise
\* ('A|B' split on '|'); None and the empty string are both falsy.
NoPositions == {}

\* None for the max_age argument, a number otherwise
NoAge == -1

(***************************************************************************)
(* Arithmetic and sequence helpers.                                        *)
(***************************************************************************)
\* int(x / n): Python's int() truncates towards zero.
TruncDiv(a, n) == IF a >= 0 THEN a \div n ELSE -((-a) \div n)

Max(a, b) == IF a >= b THEN a ELSE b

MinOf(S) == CHOOSE x \in S : \A y \in S : x <= y

RECURSIVE SumSeq(_)
SumSeq(s) == IF s = <<>> THEN 0 ELSE Head(s) + SumSeq(Tail(s))

\* s.head(n)
HeadN(s, n) == IF n <= 0 THEN <<>> ELSE SubSeq(s, 1, IF Len(s) < n THEN Len(s) ELSE n)

Range(s) == {s[i] : i \in 1..Len(s)}

\* Tuples of integers in Python's tuple order.
RECURSIVE TupleLess(_, _)
TupleLess(a, b) ==
    IF a = <<>> \/ b = <<>> THEN a = <<>> /\ b # <<>>
    ELSE IF Head(a) # Head(b) THEN Head(a) < Head(b)
    ELSE TupleLess(Tail(a), Tail(b))

\* Insert the pair x = <<key, element>> into ps, which is in descending key
\* order, behind every pair whose key is not smaller: equal keys keep their
\* order, as list.sort(reverse=True) keeps them.
RECURSIVE InsertDesc(_, _)
InsertDesc(x, ps) ==
    IF ps = <<>> THEN <<x>>
    ELSE IF TupleLess(Head(ps)[1], x[1]) THEN <<x>> \o ps
    ELSE <<Head(ps)>> \o InsertDesc(x, Tail(ps))

RECURSIVE SortPairsDesc(_)
SortPairsDesc(ps) ==
    IF ps = <<>> THEN <<>>
    ELSE InsertDesc(ps[Len(ps)], SortPairsDesc(SubSeq(ps, 1, Len(ps) - 1)))

\* sorted(s, key=..., reverse=True), keys[i] being the key tuple of s[i].
SortDesc(s, keys) ==
    LET ps == SortPairsDesc([i \in 1..Len(s) |-> <<keys[i], s[i]>>])
    IN  [i \in 1..Len(s) |-> ps[i][2]]

(***************************************************************************)
(* DataFrame selections.                                                   *)
(***************************************************************************)
\* consolidated_data[consolidated_data['Player'] == player_name]
PlayerRows(data, player_name) == SelectSeq(data, LAMBDA r : r.Player = player_name)

\* df.sort_values('Round', ascending=False)
SortRoundDesc(rows) == SortDesc(rows, [i \in 1..Len(rows) |-> <<rows[i].Round>>])

\* df.sort_values('Round')
SortRoundAsc(rows) == SortDesc(rows, [i \in 1..Len(rows) |-> <<-rows[i].Round>>])

Premiums(rows) == [i \in 1..Len(rows) |-> rows[i].Base_exceeds_price_premium]
Bases(rows) == [i \in 1..Len(rows) |-> rows[i].Total_base]

\* int(column.mean()) of a non-empty column
IntMean(column) == TruncDiv(SumSeq(column), Len(column))

(***************************************************************************)
(* Consistency calculator.                                                 *)
(***************************************************************************)
\* The loop of check_consistent_performance from row i on.
RECURSIVE ConsistentLoop(_, _, _, _, _)
ConsistentLoop(player_data, i, consecutive_weeks, current_streak, min_base_premium) ==
    IF i > Len(player_data) THEN consecutive_weeks
    ELSE LET streak == IF player_data[i].Base_exceeds_price_premium >= min_base_premium
                       THEN current_streak + 1
                       ELSE 0
         IN  ConsistentLoop(player_data, i + 1, Max(consecutive_weeks, streak), streak,
                            min_base_premium)

\* The streak that is running at the last row.
RECURSIVE TrailingLoop(_, _, _, _)
TrailingLoop(player_data, i, current_streak, min_base_premium) ==
    IF i > Len(player_data) THEN current_streak
    ELSE TrailingLoop(player_data, i + 1,
                      IF player_data[i].Base_exceeds_price_premium >= min_base_premium
                      THEN current_streak + 1
                      ELSE 0,
                      min_base_premium)

\* Variant that returns the streak running at the latest round instead of
\* the longest one.
check_consistent_performance_trailing(player_name, data, min_base_premium, required_consecutive_weeks) ==
    LET player_data == SortRoundAsc(PlayerRows(data, player_name))
    IN  IF player_data = <<>> THEN 0
        ELSE TrailingLoop(player_data, 1, 0, min_base_premium)

check_consistent_performance(player_name, data, min_base_premium, required_consecutive_weeks) ==
    LET player_data == SortRoundAsc(PlayerRows(data, player_name))
    IN  IF player_data = <<>> THEN 0
        ELSE ConsistentLoop(player_data, 1, 0, 0, min_base_premium)

\* Variant without the age exclusion.
IsAgedForward_never(row) == FALSE

\* The MID/EDG players of 29 years or more
IsAgedForward(row) == row.POS \in {"MID", "EDG"} /\ row.Age >= 29

\* Variant that averages whatever rows of the window exist.
calculate_average_bpre_partial(player_name, data, lookback_weeks) ==
    LET player_data == SortRoundDesc(PlayerRows(data, player_name))
        recent_data == HeadN(player_data, lookback_weeks)
    IN  IF player_data # <<>> /\ IsAgedForward(player_data[1]) THEN 0
        ELSE IF recent_data = <<>> THEN 0
        ELSE IntMean(Premiums(recent_data))

calculate_average_bpre(player_name, data, lookback_weeks) ==
    LET player_data == SortRoundDesc(PlayerRows(data, player_name))
        recent_data == HeadN(player_data, lookback_weeks)
    IN  IF player_data # <<>> /\ IsAgedForward(player_data[1]) THEN 0
        ELSE IF Len(recent_data) < lookback_weeks THEN 0
        ELSE IntMean(Premiums(recent_data))

calculate_average_base(player_name, data, lookback_weeks, min_games) ==
    LET player_data == SortRoundDesc(PlayerRows(data, player_name))
        recent_data == HeadN(player_data, lookback_weeks)
    IN  IF Len(recent_data) >= min_games THEN IntMean(Bases(recent_data))
        ELSE 0

(***************************************************************************)
(* Priority classifier.                                                    *)
(***************************************************************************)
\* The streak loop of check_rule_condition from row i on: it stops at the
\* first row where the streak reaches weeks_threshold.
\* Variant whose counter is 2 after the first qualifying record of a run.
RECURSIVE RuleStreakLoop_from_one(_, _, _, _, _)
RuleStreakLoop_from_one(player_history, i, current_streak, base_premium_threshold, weeks_threshold) ==
    IF i > Len(player_history) THEN current_streak
    ELSE LET streak == IF player_history[i].Base_exceeds_price_premium >= base_premium_threshold
                       THEN (IF current_streak = 0 THEN 2 ELSE current_streak + 1)
                       ELSE 0
         IN  IF streak >= weeks_threshold THEN streak
             ELSE RuleStreakLoop_from_one(player_history, i + 1, streak,
                                          base_premium_threshold, weeks_threshold)

RECURSIVE RuleStreakLoop(_, _, _, _, _)
RuleStreakLoop(player_history, i, current_streak, base_premium_threshold, weeks_threshold) ==
    IF i > Len(player_history) THEN current_streak
    ELSE LET streak == IF player_history[i].Base_exceeds_price_premium >= base_premium_threshold
                       THEN current_streak + 1
                       ELSE 0
         IN  IF streak >= weeks_threshold THEN streak
             ELSE RuleStreakLoop(player_history, i + 1, streak, base_premium_threshold,
                                 weeks_threshold)

\* Variant whose thresholds must be exceeded, not just met.
check_rule_condition_strict(player_data, data, base_premium_threshold, weeks_threshold, position_requirement, max_age) ==
    IF IsAgedForward(player_data) THEN FALSE
    ELSE
      LET meets_bpre == player_data.Base_exceeds_price_premium > base_premium_threshold
          player_history == SortRoundAsc(PlayerRows(data, player_data.Player))
          current_streak == RuleStreakLoop(player_history, 1, 0, base_premium_threshold + 1,
                                           weeks_threshold)
          meets_weeks == current_streak >= weeks_threshold
          meets_position == IF position_requirement # NoPositions
                            THEN player_data.POS \in position_requirement
                            ELSE TRUE
          meets_age == IF max_age # NoAge THEN player_data.Age <= max_age ELSE TRUE
      IN  meets_bpre /\ meets_weeks /\ meets_position /\ meets_age

check_rule_condition(player_data, data, base_premium_threshold, weeks_threshold, position_requirement, max_age) ==
    IF IsAgedForward(player_data) THEN FALSE
    ELSE
      LET meets_bpre == player_data.Base_exceeds_price_premium >= base_premium_threshold
          player_history == SortRoundAsc(PlayerRows(data, player_data.Player))
          current_streak == RuleStreakLoop(player_history, 1, 0, base_premium_threshold,
                                           weeks_threshold)
          meets_weeks == current_streak >= weeks_threshold
          meets_position == IF position_requirement # NoPositions
                            THEN player_data.POS \in position_requirement
                            ELSE TRUE
          meets_age == IF max_age # NoAge THEN player_data.Age <= max_age ELSE TRUE
      IN  meets_bpre /\ meets_weeks /\ meets_position /\ meets_age

\* One streak rule of the cascade, as assign_priority_level calls it.
StreakRule(player_data, data, threshold, weeks) ==
    check_rule_condition(player_data, data, threshold, weeks, NoPositions, NoAge)

\* One average rule of the cascade.
AverageRule(player_data, data, threshold) ==
    calculate_average_bpre(player_data.Player, data, 2) >= threshold

\* Variant of the cascade that tests rule 2 before rule 1.
assign_priority_level_reordered(player_data, data) ==
    IF StreakRule(player_data, data, 21, 2) THEN 2
    ELSE IF StreakRule(player_data, data, 14, 3) THEN 1
    ELSE IF AverageRule(player_data, data, 26) THEN 3
    ELSE IF StreakRule(player_data, data, 12, 3) THEN 4
    ELSE IF StreakRule(player_data, data, 19, 2) THEN 5
    ELSE IF AverageRule(player_data, data, 24) THEN 6
    ELSE IF StreakRule(player_data, data, 10, 3) THEN 7
    ELSE IF StreakRule(player_data, data, 17, 2) THEN 8
    ELSE IF AverageRule(player_data, data, 22) THEN 9
    ELSE IF StreakRule(player_data, data, 8, 3) THEN 10
    ELSE IF StreakRule(player_data, data, 15, 2) THEN 11
    ELSE IF AverageRule(player_data, data, 20) THEN 12
    ELSE IF StreakRule(player_data, data, 6, 3) THEN 13
    ELSE IF StreakRule(player_data, data, 13, 2) THEN 14
    ELSE IF AverageRule(player_data, data, 18) THEN 15
    ELSE IF StreakRule(player_data, data, 10, 2) THEN 16
    ELSE IF AverageRule(player_data, data, 15) THEN 17
    ELSE IF StreakRule(player_data, data, 8, 2) THEN 18
    ELSE IF AverageRule(player_data, data, 13) THEN 19
    ELSE IF StreakRule(player_data, data, 6, 2) THEN 20
    ELSE IF AverageRule(player_data, data, 11) THEN 21
    ELSE IF StreakRule(player_data, data, 2, 3) THEN 22
    ELSE IF StreakRule(player_data, data, 4, 2) THEN 23
    ELSE IF AverageRule(player_data, data, 9) THEN 24
    ELSE 25

assign_priority_level(player_data, data) ==
    IF StreakRule(player_data, data, 14, 3) THEN 1
    ELSE IF StreakRule(player_data, data, 21, 2) THEN 2
    ELSE IF AverageRule(player_data, data, 26) THEN 3
    ELSE IF StreakRule(player_data, data, 12, 3) THEN 4
    ELSE IF StreakRule(player_data, data, 19, 2) THEN 5
    ELSE IF AverageRule(player_data, data, 24) THEN 6
    ELSE IF StreakRule(player_data, data, 10, 3) THEN 7
    ELSE IF StreakRule(player_data, data, 17, 2) THEN 8
    ELSE IF AverageRule(player_data, data, 22) THEN 9
    ELSE IF StreakRule(player_data, data, 8, 3) THEN 10
    ELSE IF StreakRule(player_data, data, 15, 2) THEN 11
    ELSE IF AverageRule(player_data, data, 20) THEN 12
    ELSE IF StreakRule(player_data, data, 6, 3) THEN 13
    ELSE IF StreakRule(player_data, data, 13, 2) THEN 14
    ELSE IF AverageRule(player_data, data, 18) THEN 15
    ELSE IF StreakRule(player_data, data, 10, 2) THEN 16
    ELSE IF AverageRule(player_data, data, 15) THEN 17
    ELSE IF StreakRule(player_data, data, 8, 2) THEN 18
    ELSE IF AverageRule(player_data, data, 13) THEN 19
    ELSE IF StreakRule(player_data, data, 6, 2) THEN 20
    ELSE IF AverageRule(player_data, data, 11) THEN 21
    ELSE IF StreakRule(player_data, data, 2, 3) THEN 22
    ELSE IF StreakRule(player_data, data, 4, 2) THEN 23
    ELSE IF AverageRule(player_data, data, 9) THEN 24
    ELSE 25

\* The rule table printed by print_players_by_rule_level: rule number ->
\* <<kind, threshold, weeks>>.
rule_descriptions ==
    << <<"streak", 14, 3>>, <<"streak", 21, 2>>, <<"average", 26, 2>>,
       <<"streak", 12, 3>>, <<"streak", 19, 2>>, <<"average", 24, 2>>,
       <<"streak", 10, 3>>, <<"streak", 17, 2>>, <<"average", 22, 2>>,
       <<"streak", 8, 3>>,  <<"streak", 15, 2>>, <<"average", 20, 2>>,
       <<"streak", 6, 3>>,  <<"streak", 13, 2>>, <<"average", 18, 2>>,
       <<"streak", 10, 2>>, <<"average", 15, 2>>,
       <<"streak", 8, 2>>,  <<"average", 13, 2>>,
       <<"streak", 6, 2>>,  <<"average", 11, 2>>,
       <<"streak", 2, 3>>,  <<"streak", 4, 2>>,  <<"average", 9, 2>> >>

\* Whether the player satisfies the condition of rule r of the table.
RuleSatisfied(r, player_data, data) ==
    LET rule == rule_descriptions[r]
    IN  IF rule[1] = "streak"
        THEN check_rule_condition(player_data, data, rule[2], rule[3], NoPositions, NoAge)
        ELSE calculate_average_bpre(player_data.Player, data, rule[3]) >= rule[2]

(***************************************************************************)
(* Combination search.                                                     *)
(*                                                                         *)
(* A candidate is a row of available_players: the columns of a history row *)
(* and consecutive_good_weeks, avg_bpre, avg_base, priority_level.         *)
(* priority_groups maps a level to the list of its candidates.  The state  *)
(* of a search is [combos, used, groups, raised]: valid_combinations,      *)
(* used_players, position_filtered_groups (its lists are sorted in place   *)
(* as the search reaches them) and whether an exception was raised.        *)
(***************************************************************************)
\* None or [] for traded_out_positions: both are falsy
NoTradedOutPositions == <<>>

create_player_dict(player) ==
    [name |-> player.Player, team |-> player.Team, position |-> player.POS,
     price |-> player.Price, total_base |-> player.Total_base,
     base_premium |-> player.Base_exceeds_price_premium,
     consecutive_good_weeks |-> player.consecutive_good_weeks,
     priority_level |-> player.priority_level,
     avg_bpre |-> player.avg_bpre, avg_base |-> player.avg_base]

\* Variant whose totals are those of the first player.
create_combination_first_only(players, total_price, salary_freed) ==
    [players |-> [i \in 1..Len(players) |-> create_player_dict(players[i])],
     total_price |-> total_price,
     total_base |-> players[1].Total_base,
     total_base_premium |-> players[1].Base_exceeds_price_premium,
     salary_remaining |-> salary_freed - total_price,
     total_avg_base |-> players[1].avg_base,
     combo_avg_bpre |-> <<players[1].avg_bpre, 1>>]

\* combo_avg_bpre is the quotient sum / len, kept as <<sum, len>>.
create_combination(players, total_price, salary_freed) ==
    [players |-> [i \in 1..Len(players) |-> create_player_dict(players[i])],
     total_price |-> total_price,
     total_base |-> SumSeq([i \in 1..Len(players) |-> players[i].Total_base]),
     total_base_premium |->
         SumSeq([i \in 1..Len(players) |-> players[i].Base_exceeds_price_premium]),
     salary_remaining |-> salary_freed - total_price,
     total_avg_base |-> SumSeq([i \in 1..Len(players) |-> players[i].avg_base]),
     combo_avg_bpre |-> <<SumSeq([i \in 1..Len(players) |-> players[i].avg_bpre]),
                          Len(players)>>]

\* valid_combinations.append(combo); used_players.add(...) for each member
Accept(st, players, total_price, salary_freed) ==
    [st EXCEPT
       !.combos = Append(@, create_combination(players, total_price, salary_freed)),
       !.used = @ \cup {players[i].Player : i \in 1..Len(players)}]

\* trade_type == 'likeForLike' and traded_out_positions
IsLikeForLike(trade_type, traded_out_positions) ==
    trade_type = "likeForLike" /\ traded_out_positions # NoTradedOutPositions

MaxOfLevels(S) == CHOOSE x \in S : \A y \in S : x >= y

\* The levels from the greatest to the least.
RECURSIVE SortedLevels_descending(_)
SortedLevels_descending(S) ==
    IF S = {} THEN <<>>
    ELSE <<MaxOfLevels(S)>> \o SortedLevels_descending(S \ {MaxOfLevels(S)})

\* sorted(position_filtered_groups.keys())
RECURSIVE SortedLevels(_)
SortedLevels(S) ==
    IF S = {} THEN <<>> ELSE <<MinOf(S)>> \o SortedLevels(S \ {MinOf(S)})

\* A search that skips the position filter of a like-for-like trade.
position_unfiltered_groups(groups, trade_type, traded_out_positions) == groups

\* The groups the search works on: filtered copies for a like-for-like
\* trade, the caller's own lists otherwise.
position_filtered_groups(groups, trade_type, traded_out_positions) ==
    IF IsLikeForLike(trade_type, traded_out_positions)
    THEN [level \in DOMAIN groups |->
            SelectSeq(groups[level], LAMBDA player : player.POS \in Range(traded_out_positions))]
    ELSE groups

\* The lists of the levels, in ascending level order, one after the other.
RECURSIVE Flatten(_, _)
Flatten(groups, levels) ==
    IF levels = <<>> THEN <<>>
    ELSE groups[Head(levels)] \o Flatten(groups, Tail(levels))

\* list.sort(key=lambda x: x['avg_bpre'], reverse=True)
SortByAvgBpre(players) ==
    SortDesc(players, [i \in 1..Len(players) |-> <<players[i].avg_bpre>>])

\* Variant that leaves base_players in the order of value_players.
SortByAvgBase_unsorted(players) == players

\* list.sort(key=lambda x: x['avg_base'], reverse=True)
SortByAvgBase(players) ==
    SortDesc(players, [i \in 1..Len(players) |-> <<players[i].avg_base>>])

\* list.sort(key=lambda x: (x['avg_base'], x['avg_bpre']), reverse=True)
SortByAvgBaseThenBpre(players) ==
    SortDesc(players, [i \in 1..Len(players) |-> <<players[i].avg_base, players[i].avg_bpre>>])

\* Variant that gives up at the first candidate over budget.
RECURSIVE SingleLoop_stop_unaffordable(_, _, _, _, _)
SingleLoop_stop_unaffordable(players, i, st, salary_freed, max_options) ==
    IF i > Len(players) THEN st
    ELSE IF players[i].Player \in st.used
         THEN SingleLoop_stop_unaffordable(players, i + 1, st, salary_freed, max_options)
    ELSE IF players[i].Price <= salary_freed
         THEN LET st2 == Accept(st, <<players[i]>>, players[i].Price, salary_freed)
              IN  IF Len(st2.combos) >= max_options THEN st2
                  ELSE SingleLoop_stop_unaffordable(players, i + 1, st2, salary_freed, max_options)
    ELSE st

\* The single-slot loop over a list: it stops once max_options combinations
\* are collected.
RECURSIVE SingleLoop(_, _, _, _, _)
SingleLoop(players, i, st, salary_freed, max_options) ==
    IF i > Len(players) THEN st
    ELSE IF players[i].Player \in st.used
         THEN SingleLoop(players, i + 1, st, salary_freed, max_options)
    ELSE IF players[i].Price <= salary_freed
         THEN LET st2 == Accept(st, <<players[i]>>, players[i].Price, salary_freed)
              IN  IF Len(st2.combos) >= max_options THEN st2
                  ELSE SingleLoop(players, i + 1, st2, salary_freed, max_options)
    ELSE SingleLoop(players, i + 1, st, salary_freed, max_options)

(***************************************************************************)
(* Production strategy (maximize_base), two slots.                         *)
(***************************************************************************)
\* The inner loop over j: the first unused partner of flat_players[i] that
\* fits (for like-for-like, {POS, POS} == set(traded_out_positions)).
RECURSIVE BasePairInner(_, _, _, _, _, _, _)
BasePairInner(flat_players, i, j, st, salary_freed, like_for_like, traded_out_positions) ==
    IF j > Len(flat_players) THEN st
    ELSE
      LET first_player == flat_players[i]
          second_player == flat_players[j]
          total_price == first_player.Price + second_player.Price
          next == BasePairInner(flat_players, i, j + 1, st, salary_freed, like_for_like,
                                traded_out_positions)
      IN  IF second_player.Player \in st.used THEN next
          ELSE IF like_for_like
                  /\ {first_player.POS, second_player.POS} # Range(traded_out_positions)
               THEN next
          ELSE IF total_price <= salary_freed
               THEN Accept(st, <<first_player, second_player>>, total_price, salary_freed)
          ELSE next

RECURSIVE BasePairOuter(_, _, _, _, _, _)
BasePairOuter(flat_players, i, st, salary_freed, like_for_like, traded_out_positions) ==
    IF i > Len(flat_players) THEN st
    ELSE IF flat_players[i].Player \in st.used
         THEN BasePairOuter(flat_players, i + 1, st, salary_freed, like_for_like,
                            traded_out_positions)
    ELSE BasePairOuter(flat_players, i + 1,
                       BasePairInner(flat_players, i, i + 1, st, salary_freed, like_for_like,
                                     traded_out_positions),
                       salary_freed, like_for_like, traded_out_positions)

MaximizeBase(st, salary_freed, max_options, like_for_like, traded_out_positions, num_players_needed) ==
    LET flat_players == SortByAvgBaseThenBpre(
                            Flatten(st.groups, SortedLevels(DOMAIN st.groups)))
    IN  IF num_players_needed = 1
        THEN SingleLoop(flat_players, 1, st, salary_freed, max_options)
        ELSE BasePairOuter(flat_players, 1, st, salary_freed, like_for_like,
                           traded_out_positions)

(***************************************************************************)
(* Hybrid strategy.                                                        *)
(***************************************************************************)
\* level_players.sort(...) for every level, in place
RECURSIVE SortLevelsInPlace(_, _)
SortLevelsInPlace(groups, levels) ==
    IF levels = <<>> THEN groups
    ELSE SortLevelsInPlace([groups EXCEPT ![Head(levels)] = SortByAvgBpre(@)], Tail(levels))

\* The loop over base_players for one value_player; needed_position is the
\* position a like-for-like partner must have.
RECURSIVE HybridInner(_, _, _, _, _, _, _)
HybridInner(base_players, k, value_player, st, salary_freed, like_for_like, needed_position) ==
    IF k > Len(base_players) THEN st
    ELSE
      LET base_player == base_players[k]
          remaining_salary == salary_freed - value_player.Price
      IN  IF /\ base_player.Player \notin st.used
             /\ base_player.Player # value_player.Player
             /\ (like_for_like => base_player.POS = needed_position)
             /\ base_player.Price <= remaining_salary
          THEN Accept(st, <<value_player, base_player>>,
                      value_player.Price + base_player.Price, salary_freed)
          ELSE HybridInner(base_players, k + 1, value_player, st, salary_freed,
                           like_for_like, needed_position)

\* [pos for pos in traded_out_positions if pos != value_player['POS']]
OtherPositions(traded_out_positions, pos) ==
    SelectSeq(traded_out_positions, LAMBDA q : q # pos)

\* The loop over value_players.  Taking element [0] of an empty list of
\* other positions raises IndexError, which ends the search.
RECURSIVE HybridOuter(_, _, _, _, _, _, _)
HybridOuter(value_players, base_players, i, st, salary_freed, like_for_like, traded_out_positions) ==
    IF i > Len(value_players) THEN st
    ELSE
      LET value_player == value_players[i]
          others == OtherPositions(traded_out_positions, value_player.POS)
      IN  IF value_player.Player \in st.used
          THEN HybridOuter(value_players, base_players, i + 1, st, salary_freed,
                           like_for_like, traded_out_positions)
          ELSE IF like_for_like /\ others = <<>>
          THEN [st EXCEPT !.raised = TRUE]
          ELSE HybridOuter(value_players, base_players, i + 1,
                           HybridInner(base_players, 1, value_player, st, salary_freed,
                                       like_for_like,
                                       IF like_for_like THEN others[1] ELSE ""),
                           salary_freed, like_for_like, traded_out_positions)

HybridApproach(st, salary_freed, max_options, like_for_like, traded_out_positions, num_players_needed) ==
    LET levels == SortedLevels(DOMAIN st.groups)
        sorted_groups == SortLevelsInPlace(st.groups, levels)
        value_players == Flatten(sorted_groups, levels)
        base_players == SortByAvgBase(Flatten(sorted_groups, levels))
        st1 == [st EXCEPT !.groups = sorted_groups]
    IN  IF num_players_needed = 1
        THEN SingleLoop(value_players, 1, st1, salary_freed, max_options)
        ELSE HybridOuter(value_players, base_players, 1, st1, salary_freed, like_for_like,
                         traded_out_positions)

(***************************************************************************)
(* Value strategy (the default): strict rule level ordering.               *)
(***************************************************************************)
\* A partner test that forgets used_players.
FitsAsSecond_reuse(second_player, st, like_for_like, needed_position) ==
    like_for_like => second_player.POS \in Range(needed_position)

\* Whether second_player may partner first_player: unused and, for
\* like-for-like, of a position in needed_position.
FitsAsSecond(second_player, st, like_for_like, needed_position) ==
    /\ second_player.Player \notin st.used
    /\ (like_for_like => second_player.POS \in Range(needed_position))

\* A partner loop that accepts the first fitting partner whatever the price.
RECURSIVE PartnerLoop_any_price(_, _, _, _, _, _, _)
PartnerLoop_any_price(players, j, first_player, st, salary_freed, like_for_like, needed_position) ==
    IF j > Len(players) THEN st
    ELSE
      LET second_player == players[j]
          total_price == first_player.Price + second_player.Price
      IN  IF FitsAsSecond(second_player, st, like_for_like, needed_position)
          THEN Accept(st, <<first_player, second_player>>, total_price, salary_freed)
          ELSE PartnerLoop_any_price(players, j + 1, first_player, st, salary_freed,
                                     like_for_like, needed_position)

\* The loop over the candidates players[j..] for a partner of first_player:
\* the first one that fits and is affordable is accepted.
RECURSIVE PartnerLoop(_, _, _, _, _, _, _)
PartnerLoop(players, j, first_player, st, salary_freed, like_for_like, needed_position) ==
    IF j > Len(players) THEN st
    ELSE
      LET second_player == players[j]
          total_price == first_player.Price + second_player.Price
      IN  IF /\ FitsAsSecond(second_player, st, like_for_like, needed_position)
             /\ total_price <= salary_freed
          THEN Accept(st, <<first_player, second_player>>, total_price, salary_freed)
          ELSE PartnerLoop(players, j + 1, first_player, st, salary_freed, like_for_like,
                           needed_position)

\* valid_combo_found after a partner loop that started from st
ComboFound(st, st2) == Len(st2.combos) > Len(st.combos)

\* The loop over the next levels, lists as they are at that moment, until
\* one of them gives a partner.
RECURSIVE NextLevelsLoop(_, _, _, _, _, _)
NextLevelsLoop(next_levels, first_player, st, salary_freed, like_for_like, needed_position) ==
    IF next_levels = <<>> THEN st
    ELSE
      LET st2 == PartnerLoop(st.groups[Head(next_levels)], 1, first_player, st,
                             salary_freed, like_for_like, needed_position)
      IN  IF ComboFound(st, st2) THEN st2
          ELSE NextLevelsLoop(Tail(next_levels), first_player, st, salary_freed,
                              like_for_like, needed_position)

\* The loop over the first players of one level.
RECURSIVE ValuePairLoop(_, _, _, _, _, _, _)
ValuePairLoop(players_in_level, i, next_levels, st, salary_freed, like_for_like, traded_out_positions) ==
    IF i > Len(players_in_level) THEN st
    ELSE
      LET first_player == players_in_level[i]
          needed_position == OtherPositions(traded_out_positions, first_player.POS)
          same_level == PartnerLoop(players_in_level, i + 1, first_player, st, salary_freed,
                                    like_for_like, needed_position)
          st2 == IF ComboFound(st, same_level) THEN same_level
                 ELSE NextLevelsLoop(next_levels, first_player, st, salary_freed,
                                     like_for_like, needed_position)
      IN  IF first_player.Player \in st.used
          THEN ValuePairLoop(players_in_level, i + 1, next_levels, st, salary_freed,
                             like_for_like, traded_out_positions)
          ELSE ValuePairLoop(players_in_level, i + 1, next_levels, st2, salary_freed,
                             like_for_like, traded_out_positions)

\* The loop over the levels: each level's list is sorted in place when the
\* loop reaches it.
RECURSIVE ValueLevelsLoop(_, _, _, _, _, _, _, _)
ValueLevelsLoop(priority_levels, n, st, salary_freed, max_options, like_for_like, traded_out_positions, num_players_needed) ==
    IF n > Len(priority_levels) THEN st
    ELSE
      LET level == priority_levels[n]
          st1 == [st EXCEPT !.groups[level] = SortByAvgBpre(@)]
          players_in_level == st1.groups[level]
          st2 == IF num_players_needed = 1
                 THEN SingleLoop(players_in_level, 1, st1, salary_freed, max_options)
                 ELSE ValuePairLoop(players_in_level, 1,
                                    SubSeq(priority_levels, n + 1, Len(priority_levels)),
                                    st1, salary_freed, like_for_like, traded_out_positions)
      IN  ValueLevelsLoop(priority_levels, n + 1, st2, salary_freed, max_options,
                          like_for_like, traded_out_positions, num_players_needed)

MaximizeValue(st, salary_freed, max_options, like_for_like, traded_out_positions, num_players_needed) ==
    ValueLevelsLoop(SortedLevels(DOMAIN st.groups), 1, st, salary_freed, max_options,
                    like_for_like, traded_out_positions, num_players_needed)

(***************************************************************************)
(* The state of the search when generate_comprehensive_trade_options       *)
(* returns or raises, and the slice it returns.                            *)
(***************************************************************************)
generate_comprehensive_trade_options(groups, salary_freed, maximize_base, hybrid_approach, max_options, trade_type, traded_out_positions, num_players_needed) ==
    LET like_for_like == IsLikeForLike(trade_type, traded_out_positions)
        st == [combos |-> <<>>, used |-> {}, raised |-> FALSE,
               groups |-> position_filtered_groups(groups, trade_type, traded_out_positions)]
    IN  IF maximize_base
        THEN MaximizeBase(st, salary_freed, max_options, like_for_like,
                          traded_out_positions, num_players_needed)
        ELSE IF hybrid_approach
        THEN HybridApproach(st, salary_freed, max_options, like_for_like,
                            traded_out_positions, num_players_needed)
        ELSE MaximizeValue(st, salary_freed, max_options, like_for_like,
                           traded_out_positions, num_players_needed)

\* A return without the slice.
Truncate_none(combos, max_options) == combos

\* valid_combinations[:max_options]
Truncate(combos, max_options) == HeadN(combos, max_options)

(***************************************************************************)
(* Inputs of the per-player calculators.                                   *)
(***************************************************************************)
\* Premiums that reach the thresholds of the cascade, and a miss (0).
BpreVals == {0, 2, 4, 6, 10, 13, 19, 21, 36}

\* <<position, age>> on both sides of the MID/EDG age-29 exclusion
PosAges == {<<"HLF", 29>>, <<"MID", 28>>, <<"MID", 29>>, <<"EDG", 30>>}

Row(player, round, team, pos, age, price, base, bpre) ==
    [Player |-> player, Round |-> round, Team |-> team, POS |-> pos, Age |-> age,
     Price |-> price, Total_base |-> base, Base_exceeds_price_premium |-> bpre]

\* The history of one player "p1" with a row in each of the rounds 1..n,
\* b[i] being the premium of round i.
TierFrame(n, b, pa) == [i \in 1..n |-> Row("p1", i, "MEL", pa[1], pa[2], 1, 10, b[i])]

\* <<premium, base>> of a row; the premium may be negative.
CalcCells == {<<-3, 4>>, <<-3, 7>>, <<5, 4>>, <<5, 7>>}

\* The cell of a round the player has not played
NoCell == <<>>

\* The rows of round i, in frame order: "p1" has played it or not, and "q1"
\* has played every round.
CalcRoundRows(i, cell, pa) ==
    (IF cell = NoCell THEN <<>>
     ELSE <<Row("p1", i, "MEL", pa[1], pa[2], 1, cell[2], cell[1])>>)
    \o <<Row("q1", i, "MEL", "HLF", 25, 1, 5, 5)>>

RECURSIVE Concat(_, _)
Concat(f, n) == IF n = 0 THEN <<>> ELSE Concat(f, n - 1) \o f[n]

Reverse(s) == [i \in 1..Len(s) |-> s[Len(s) + 1 - i]]

\* The frame over the rounds 1..MaxRound, oldest round first.
CalcFrame(c, pa) == Concat([i \in 1..MaxRound |-> CalcRoundRows(i, c[i], pa)], MaxRound)

NoRequest == [op |-> "none"]
NoResult == [outcome |-> "none"]
Returned(v) == [outcome |-> "returned", value |-> v]

InitCommon ==
    /\ request = NoRequest
    /\ pc = "ready"
    /\ result = NoResult
    /\ priority_groups = <<>>
    /\ valid_combinations = <<>>
    /\ previous_result = NoResult

InitTier ==
    /\ \E n \in 1..MaxRound : \E b \in [1..n -> BpreVals], pa \in PosAges :
         consolidated_data = TierFrame(n, b, pa)
    /\ InitCommon

\* The frame holds the oldest round first or the newest round first: the
\* calculators sort the rows they select themselves.
InitCalc ==
    /\ \E c \in [1..MaxRound -> CalcCells \cup {NoCell}], pa \in PosAges :
         \/ consolidated_data = CalcFrame(c, pa)
         \/ consolidated_data = Reverse(CalcFrame(c, pa))
    /\ InitCommon

\* The row handed to assign_priority_level: the player's latest record.
LatestRow(data, player_name) == SortRoundDesc(PlayerRows(data, player_name))[1]

HasRows(data, player_name) == PlayerRows(data, player_name) # <<>>

(***************************************************************************)
(* Calls of the per-player calculators.                                    *)
(***************************************************************************)
ThresholdVals == {0, 5}
WeeksVals == {2, 3}
LookbackVals == {1, 2, 3}
MinGamesVals == {1, 2, 3}

CallAssignPriorityLevel ==
    /\ pc = "ready"
    /\ HasRows(consolidated_data, "p1")
    /\ request' = [op |-> "assign_priority_level", player_name |-> "p1"]
    /\ result' = Returned(assign_priority_level(LatestRow(consolidated_data, "p1"),
                                                consolidated_data))
    /\ pc' = "done"
    /\ UNCHANGED <<consolidated_data, priority_groups, valid_combinations, previous_result>>

CallCheckConsistentPerformance ==
    /\ pc = "ready"
    /\ \E t \in ThresholdVals, w \in WeeksVals :
         /\ request' = [op |-> "check_consistent_performance", player_name |-> "p1",
                        min_base_premium |-> t, required_consecutive_weeks |-> w]
         /\ result' = Returned(check_consistent_performance("p1", consolidated_data, t, w))
    /\ pc' = "done"
    /\ UNCHANGED <<consolidated_data, priority_groups, valid_combinations, previous_result>>

CallCalculateAverageBpre ==
    /\ pc = "ready"
    /\ \E l \in LookbackVals :
         /\ request' = [op |-> "calculate_average_bpre", player_name |-> "p1",
                        lookback_weeks |-> l]
         /\ result' = Returned(calculate_average_bpre("p1", consolidated_data, l))
    /\ pc' = "done"
    /\ UNCHANGED <<consolidated_data, priority_groups, valid_combinations, previous_result>>

CallCalculateAverageBase ==
    /\ pc = "ready"
    /\ \E l \in LookbackVals, g \in MinGamesVals :
         /\ request' = [op |-> "calculate_average_base", player_name |-> "p1",
                        lookback_weeks |-> l, min_games |-> g]
         /\ result' = Returned(calculate_average_base("p1", consolidated_data, l, g))
    /\ pc' = "done"
    /\ UNCHANGED <<consolidated_data, priority_groups, valid_combinations, previous_result>>

NextTier == CallAssignPriorityLevel

NextCalc ==
    \/ CallCheckConsistentPerformance
    \/ CallCalculateAverageBpre
    \/ CallCalculateAverageBase

SpecTier == InitTier /\ [][NextTier]_vars

SpecCalc == InitCalc /\ [][NextCalc]_vars

(***************************************************************************)
(* Inputs and call of the combination search.                              *)
(***************************************************************************)
\* The candidates of a pool, in the order of available_players (groupby
\* orders the rows by Player).
CandidateNames == <<"a", "b", "c", "d">>

\* <<avg_bpre, avg_base>> of each candidate: the name order is neither the
\* avg_bpre order nor the avg_base order, and both have ties.
CandidateAverages == <<<<1, 2>>, <<2, 2>>, <<2, 1>>, <<1, 1>>>>

\* <<Total base, Base exceeds price premium>> of each candidate's latest
\* record: of two candidates with the same avg_base ("a", "b") the first has
\* the greater Total base, and of two with the same avg_bpre ("b", "c") the
\* second has the greater premium.
CandidateCurrent == <<<<12, 5>>, <<10, 5>>, <<10, 7>>, <<10, 5>>>>

\* <<position, price>> of a candidate
PosPrices == {<<"HLF", 1>>, <<"HLF", 3>>, <<"MID", 1>>, <<"EDG", 3>>}

\* Two of the levels that assign_priority_level gives
LevelVals == {1, 2}

Candidate(name, pos, price, level, avg_bpre, avg_base, total_base, base_premium) ==
    [Player |-> name, Team |-> "MEL", POS |-> pos, Price |-> price,
     Total_base |-> total_base, Base_exceeds_price_premium |-> base_premium,
     consecutive_good_weeks |-> 1,
     priority_level |-> level, avg_bpre |-> avg_bpre, avg_base |-> avg_base]

\* priority_groups built from available_players: a level gets a list when
\* its first candidate is met, and each candidate is appended to the list
\* of its level.
GroupByLevel(available_players) ==
    [level \in {available_players[i].priority_level : i \in 1..Len(available_players)} |->
        SelectSeq(available_players, LAMBDA player : player.priority_level = level)]

Pool(pp, lv) ==
    [i \in 1..Len(CandidateNames) |->
        Candidate(CandidateNames[i], pp[i][1], pp[i][2], lv[i],
                  CandidateAverages[i][1], CandidateAverages[i][2],
                  CandidateCurrent[i][1], CandidateCurrent[i][2])]

InitSearch ==
    /\ \E pp \in [1..Len(CandidateNames) -> PosPrices],
          lv \in [1..Len(CandidateNames) -> LevelVals] :
         priority_groups = GroupByLevel(Pool(pp, lv))
    /\ consolidated_data = <<>>
    /\ request = NoRequest
    /\ pc = "ready"
    /\ result = NoResult
    /\ valid_combinations = <<>>
    /\ previous_result = NoResult

\* <<maximize_base, hybrid_approach>>: production, hybrid, value
Strategies == {<<TRUE, FALSE>>, <<FALSE, TRUE>>, <<FALSE, FALSE>>}

\* <<trade_type, traded_out_positions, num_players_needed>>.  A positional
\* swap passes no positions; a like-for-like trade passes the positions of
\* the traded-out players that have records, which are fewer than the
\* slots when one of them has none.
TradeShapes ==
    {<<"positionalSwap", NoTradedOutPositions, 1>>,
     <<"positionalSwap", NoTradedOutPositions, 2>>,
     <<"likeForLike", <<"HLF">>, 1>>,
     <<"likeForLike", <<"HLF", "MID">>, 2>>,
     <<"likeForLike", <<"HLF", "HLF">>, 2>>,
     <<"likeForLike", <<"HLF">>, 2>>}

SalaryVals == {2, 4}

\* max_options: small values and the default
MaxOptionsVals == {1, 2, 10}

Raised(e) == [outcome |-> "raised", value |-> e]

\* One call of generate_comprehensive_trade_options.  The lists of the
\* caller's priority_groups are the ones the search sorts unless it works
\* on the filtered copies of a like-for-like trade.
CallGenerateOptions ==
    /\ pc = "ready"
    /\ \E sg \in Strategies, ts \in TradeShapes, sf \in SalaryVals, mo \in MaxOptionsVals :
         LET st == generate_comprehensive_trade_options(priority_groups, sf, sg[1], sg[2],
                                                        mo, ts[1], ts[2], ts[3])
         IN  /\ request' = [op |-> "generate_comprehensive_trade_options",
                            salary_freed |-> sf, maximize_base |-> sg[1],
                            hybrid_approach |-> sg[2], max_options |-> mo,
                            trade_type |-> ts[1], traded_out_positions |-> ts[2],
                            num_players_needed |-> ts[3]]
             /\ valid_combinations' = st.combos
             /\ result' = IF st.raised THEN Raised("IndexError")
                          ELSE Returned(Truncate(st.combos, mo))
             /\ priority_groups' = IF IsLikeForLike(ts[1], ts[2]) THEN priority_groups
                                   ELSE st.groups
    /\ pc' = "done"
    /\ UNCHANGED <<consolidated_data, previous_result>>

\* A second call with the arguments of the first: the same values and the
\* same priority_groups object, whose lists the first call may have sorted.
CallGenerateOptionsAgain ==
    /\ pc = "done"
    /\ request.op = "generate_comprehensive_trade_options"
    /\ LET st == generate_comprehensive_trade_options(priority_groups, request.salary_freed,
                     request.maximize_base, request.hybrid_approach, request.max_options,
                     request.trade_type, request.traded_out_positions,
                     request.num_players_needed)
       IN  /\ valid_combinations' = st.combos
           /\ result' = IF st.raised THEN Raised("IndexError")
                        ELSE Returned(Truncate(st.combos, request.max_options))
           /\ priority_groups' =
                  IF IsLikeForLike(request.trade_type, request.traded_out_positions)
                  THEN priority_groups ELSE st.groups
    /\ previous_result' = result
    /\ pc' = "again"
    /\ UNCHANGED <<consolidated_data, request>>

NextSearch == CallGenerateOptions

NextSearchTwice == CallGenerateOptions \/ CallGenerateOptionsAgain

SpecSearch == InitSearch /\ [][NextSearch]_vars

SpecSearchTwice == InitSearch /\ [][NextSearchTwice]_vars

(***************************************************************************)
(* Lockout: get_locked_out_players.                                        *)
(*                                                                         *)
(* The text of a date and time is the tuple of its fields                  *)
(* <<year, month, day, hour, minute>>.                                     *)
(***************************************************************************)
\* None or '' for simulate_datetime: both are falsy
NoDatetime == <<>>

\* The days of 2025 before the first day of each month
DaysBeforeMonth == <<0, 31, 59, 90, 120, 151, 181, 212, 243, 273, 304, 334>>

\* datetime.strptime of a text of 2025: the datetime, as the minutes since
\* 2025-01-01 00:00; datetimes compare as these numbers do.
strptime(t) == ((DaysBeforeMonth[t[2]] + (t[3] - 1)) * 24 + t[4]) * 60 + t[5]

fixtures ==
    << <<<<2025, 3, 2, 11, 0>>, <<"CAN", "WAR">>>>,
       <<<<2025, 3, 2, 15, 30>>, <<"PEN", "CRO">>>>,
       <<<<2025, 3, 6, 20, 0>>, <<"SYD", "BRI">>>>,
       <<<<2025, 3, 7, 18, 0>>, <<"WST", "NEW">>>>,
       <<<<2025, 3, 7, 20, 5>>, <<"DOL", "SOU">>>>,
       <<<<2025, 3, 8, 17, 30>>, <<"SGI", "CBY">>>>,
       <<<<2025, 3, 8, 19, 35>>, <<"MAN", "NQL">>>>,
       <<<<2025, 3, 9, 16, 5>>, <<"MEL", "SOU">>>> >>

\* A test that leaves out the fixture that kicks off at the simulated time.
FixtureStarted_strict(fixture_dt, simulate_dt) == fixture_dt < simulate_dt

\* if fixture_dt <= simulate_dt
FixtureStarted(fixture_dt, simulate_dt) == fixture_dt <= simulate_dt

locked_out_teams(simulate_dt) ==
    UNION {Range(fixtures[k][2]) :
             k \in {i \in 1..Len(fixtures) :
                      FixtureStarted(strptime(fixtures[i][1]), simulate_dt)}}

PlayersOf(data) == {data[i].Player : i \in 1..Len(data)}

\* The row of latest_round_data for a player: the last of the player's rows
\* once sorted by Round.
latest_round_data(data, player_name) ==
    LET rows == SortRoundAsc(PlayerRows(data, player_name)) IN rows[Len(rows)]

get_locked_out_players(simulate_datetime, data) ==
    IF simulate_datetime = NoDatetime THEN {}
    ELSE LET teams == locked_out_teams(strptime(simulate_datetime))
         IN  {player \in PlayersOf(data) : latest_round_data(data, player).Team \in teams}

(***************************************************************************)
(* calculate_trade_options.                                                *)
(***************************************************************************)
\* None or [] for allowed_positions and for team_list: both are falsy
NoAllowedPositions == <<>>
NoTeamList == <<>>

RECURSIVE get_traded_out_positions(_, _)
get_traded_out_positions(traded_out_players, data) ==
    IF traded_out_players = <<>> THEN <<>>
    ELSE (IF HasRows(data, Head(traded_out_players))
          THEN <<LatestRow(data, Head(traded_out_players)).POS>>
          ELSE <<>>)
         \o get_traded_out_positions(Tail(traded_out_players), data)

\* The loop that adds up salary_freed: a player without records adds
\* nothing.
RECURSIVE SalaryFreed(_, _)
SalaryFreed(traded_out_players, data) ==
    IF traded_out_players = <<>> THEN 0
    ELSE (IF HasRows(data, Head(traded_out_players))
          THEN LatestRow(data, Head(traded_out_players)).Price
          ELSE 0)
         + SalaryFreed(Tail(traded_out_players), data)

\* The warnings that loop prints, one for each player without records
PriceWarnings(traded_out_players, data) ==
    {<<"Could not find price data", traded_out_players[i]>> :
        i \in {k \in 1..Len(traded_out_players) : ~HasRows(data, traded_out_players[k])}}

\* Variant that keeps every round of the history.
all_rounds(data) == {data[i].Round : i \in 1..Len(data)}

\* sorted(consolidated_data['Round'].unique())[-3:]
last_three_rounds(data) ==
    LET rounds == {data[i].Round : i \in 1..Len(data)}
    IN  {r \in rounds : Cardinality({q \in rounds : q > r}) < 3}

\* The player names of the model in the order groupby('Player') puts them
PlayerOrder == <<"a", "b", "c", "e", "ghost", "t1", "t2", "zz">>

\* Variant that leaves the traded-out players among the candidates.
AvailablePlayers_with_traded_out(data, traded_out_players) ==
    LET recent == SelectSeq(data, LAMBDA r : r.Round \in last_three_rounds(data))
        names == SelectSeq(PlayerOrder, LAMBDA name : HasRows(recent, name))
    IN  [i \in 1..Len(names) |->
            LET rows == PlayerRows(recent, names[i]) IN rows[Len(rows)]]

\* available_players before the restrictions: for each player, in name
\* order, with a row in the last three rounds who is not traded out, the
\* last of those rows in the order of the frame.
AvailablePlayers(data, traded_out_players) ==
    LET recent == SelectSeq(data, LAMBDA r : /\ r.Round \in last_three_rounds(data)
                                            /\ r.Player \notin Range(traded_out_players))
        names == SelectSeq(PlayerOrder, LAMBDA name : HasRows(recent, name))
    IN  [i \in 1..Len(names) |->
            LET rows == PlayerRows(recent, names[i]) IN rows[Len(rows)]]

\* The row with the columns consecutive_good_weeks, avg_bpre, avg_base and
\* priority_level that calculate_trade_options computes for it.
WithColumns(row, data, min_games) ==
    [Player |-> row.Player, Round |-> row.Round, Team |-> row.Team, POS |-> row.POS,
     Age |-> row.Age, Price |-> row.Price, Total_base |-> row.Total_base,
     Base_exceeds_price_premium |-> row.Base_exceeds_price_premium,
     consecutive_good_weeks |-> check_consistent_performance(row.Player, data, 5, 2),
     avg_bpre |-> calculate_average_bpre(row.Player, data, 3),
     avg_base |-> calculate_average_base(row.Player, data, 3, min_games),
     priority_level |-> assign_priority_level(row, data)]

\* What a call leaves: its result, the warnings it printed, and the
\* priority_groups and valid_combinations of the search it ran, if any.
Outcome(res, printed, groups, combos) ==
    [result |-> [outcome |-> res.outcome, value |-> res.value, printed |-> printed],
     priority_groups |-> groups, valid_combinations |-> combos]

\* What line 786 can do with an available_players of no rows. DataFrame.apply
\* with axis=1 on an empty frame probes the function to decide between a
\* Series and a copy of the frame: a build whose probe row has the frame's
\* columns gets 25 and an empty Series, and the call goes on to an empty
\* priority_groups; a build whose probe is an empty Series gets a KeyError,
\* hands back the copy of the frame, and the assignment of that frame to
\* the one column priority_level raises ValueError.
EmptyFrameOutcomes(run, printed) ==
    {run, Outcome(Raised("ValueError"), printed, <<>>, <<>>)}

\* The outcomes of a call, a set: one outcome, or with an available_players
\* of no rows at line 786 the two of EmptyFrameOutcomes.
calculate_trade_options(data, traded_out_players, maximize_base, hybrid_approach, max_options, allowed_positions, trade_type, min_games, team_list, simulate_datetime, apply_lockout) ==
    LET locked_out_players ==
            IF apply_lockout THEN get_locked_out_players(simulate_datetime, data) ELSE {}
        traded_out_positions ==
            IF trade_type = "likeForLike" THEN get_traded_out_positions(traded_out_players, data)
            ELSE NoTradedOutPositions
        positions_to_use ==
            IF trade_type = "positionalSwap" THEN allowed_positions ELSE NoAllowedPositions
        num_players_needed == Len(traded_out_players)
        salary_freed == SalaryFreed(traded_out_players, data)
        printed == PriceWarnings(traded_out_players, data)
        all_recent == AvailablePlayers(data, traded_out_players)
        in_team_list ==
            IF team_list # NoTeamList
            THEN SelectSeq(all_recent, LAMBDA r : r.Player \in Range(team_list))
            ELSE all_recent
        not_locked ==
            IF apply_lockout
            THEN SelectSeq(in_team_list, LAMBDA r : r.Player \notin locked_out_players)
            ELSE in_team_list
        in_positions ==
            IF positions_to_use # NoAllowedPositions
            THEN SelectSeq(not_locked, LAMBDA r : r.POS \in Range(positions_to_use))
            ELSE not_locked
        available_players ==
            [i \in 1..Len(in_positions) |-> WithColumns(in_positions[i], data, min_games)]
        groups == GroupByLevel(available_players)
        st == generate_comprehensive_trade_options(groups, salary_freed, maximize_base,
                  hybrid_approach, max_options, trade_type, traded_out_positions,
                  num_players_needed)
        groups_after == IF IsLikeForLike(trade_type, traded_out_positions) THEN groups
                        ELSE st.groups
    IN  IF team_list # NoTeamList /\ in_team_list = <<>>
        THEN {Outcome(Returned(<<>>), printed \cup {<<"No players available", "team list">>},
                      <<>>, <<>>)}
        ELSE IF apply_lockout /\ not_locked = <<>>
        THEN {Outcome(Returned(<<>>), printed \cup {<<"No players available", "lockout">>},
                      <<>>, <<>>)}
        ELSE IF in_positions = <<>>
        THEN EmptyFrameOutcomes(Outcome(Returned(<<>>), printed, <<>>, <<>>), printed)
        ELSE IF st.raised
        THEN {Outcome(Raised("IndexError"), printed, groups_after, st.combos)}
        ELSE {Outcome(Returned(HeadN(Truncate(st.combos, max_options), max_options)), printed,
                      groups_after, st.combos)}

(***************************************************************************)
(* Inputs and call of calculate_trade_options.                             *)
(***************************************************************************)
\* A team of the first fixture, a team of the last fixture, and a team
\* with no fixture
Teams == {"CAN", "MEL", "PAR"}

\* The history, by round: "t1" and "t2" are the players to trade out
\* ("t2" a HLF or a MID); "a" (HLF), "b" (MID) and "c" (HLF) are candidates
\* of decreasing form whose team of round 4 is tm[1], tm[2], tm[3] ("a" and
\* "b" played for another team before); "e" has not played since round 1.
TradeRounds(tm, pos2) ==
    << <<Row("e", 1, "PAR", "HLF", 25, 1, 10, 21)>>,
       <<Row("a", 2, "MEL", "HLF", 25, 1, 12, 21)>>,
       <<Row("a", 3, "MEL", "HLF", 25, 1, 12, 21),
         Row("b", 3, "CAN", "MID", 25, 1, 10, 10),
         Row("t1", 3, "PAR", "HLF", 25, 2, 10, 5),
         Row("t2", 3, "PAR", pos2, 25, 2, 10, 5)>>,
       <<Row("a", 4, tm[1], "HLF", 25, 1, 12, 21),
         Row("b", 4, tm[2], "MID", 25, 1, 10, 10),
         Row("c", 4, tm[3], "HLF", 25, 3, 8, 0),
         Row("t1", 4, "PAR", "HLF", 25, 2, 10, 5),
         Row("t2", 4, "PAR", pos2, 25, 2, 10, 5)>> >>

TradeFrame(tm, pos2) == Concat(TradeRounds(tm, pos2), Len(TradeRounds(tm, pos2)))

\* The frame holds the oldest round first or the newest round first.
InitTrade ==
    /\ \E tm \in [1..3 -> Teams], pos2 \in {"HLF", "MID"} :
         \/ consolidated_data = TradeFrame(tm, pos2)
         \/ consolidated_data = Reverse(TradeFrame(tm, pos2))
    /\ InitCommon

\* traded_out_players: one player, two players, and a pair with a name
\* that has no record
TradedOutVals == {<<"t1">>, <<"t1", "t2">>, <<"t1", "ghost">>}

\* <<trade_type, allowed_positions>>
TradeTypeVals ==
    {<<"likeForLike", NoAllowedPositions>>,
     <<"positionalSwap", NoAllowedPositions>>,
     <<"positionalSwap", <<"HLF">>>>,
     <<"positionalSwap", <<"EDG">>>>,
     <<"likeForLike", <<"EDG">>>>}

\* <<restrict_to_team_list, team_list>>: no restriction, or the restriction
\* with the Player column of the team list file (no name, two candidates,
\* a name that is no candidate)
TeamListVals ==
    {<<FALSE, NoTeamList>>, <<TRUE, <<>>>>, <<TRUE, <<"a", "b">>>>, <<TRUE, <<"zz">>>>}

\* Simulated times before every kickoff, at the minute before and at the
\* first kickoff, at the minute before and at the last kickoff, and after.
SimulateVals ==
    {<<2025, 2, 28, 23, 59>>, <<2025, 3, 2, 10, 59>>, <<2025, 3, 2, 11, 0>>,
     <<2025, 3, 9, 16, 4>>, <<2025, 3, 9, 16, 5>>, <<2025, 4, 1, 0, 0>>}

\* <<apply_lockout, simulate_datetime>>
LockoutVals ==
    {<<FALSE, NoDatetime>>, <<TRUE, NoDatetime>>} \cup {<<TRUE, t>> : t \in SimulateVals}

\* One call of calculate_trade_options, with the defaults of max_options
\* (10) and min_games (2).
CallCalculateTradeOptions ==
    /\ pc = "ready"
    /\ \E sg \in Strategies, tt \in TradeTypeVals, out \in TradedOutVals,
          tl \in TeamListVals, lo \in LockoutVals :
         \E run \in calculate_trade_options(consolidated_data, out, sg[1], sg[2], 10, tt[2],
                                            tt[1], 2, tl[2], lo[2], lo[1]) :
             /\ request' = [op |-> "calculate_trade_options", traded_out_players |-> out,
                            maximize_base |-> sg[1], hybrid_approach |-> sg[2],
                            max_options |-> 10, allowed_positions |-> tt[2],
                            trade_type |-> tt[1], min_games |-> 2,
                            restrict_to_team_list |-> tl[1], team_list |-> tl[2],
                            simulate_datetime |-> lo[2], apply_lockout |-> lo[1]]
             /\ result' = run.result
             /\ priority_groups' = run.priority_groups
             /\ valid_combinations' = run.valid_combinations
    /\ pc' = "done"
    /\ UNCHANGED <<consolidated_data, previous_result>>

NextTrade == CallCalculateTradeOptions

SpecTrade == InitTrade /\ [][NextTrade]_vars

(***************************************************************************)
(* Properties of the per-player calculators.                               *)
(***************************************************************************)
Called(op) == pc = "done" /\ request.op = op

\* The player's records as a set, and the n most recent of them by round.
RecordsOf(player_name) == Range(PlayerRows(consolidated_data, player_name))

MostRecentOf(player_name, n) ==
    {r \in RecordsOf(player_name) :
       Cardinality({q \in RecordsOf(player_name) : q.Round > r.Round}) < n}

PremiumOf(r) == r.Base_exceeds_price_premium

\* The sum of the Total base column over a set of records
RECURSIVE SumOfBases(_)
SumOfBases(S) ==
    IF S = {} THEN 0
    ELSE LET x == CHOOSE y \in S : TRUE IN x.Total_base + SumOfBases(S \ {x})

\* The rules of the table that the player of the call satisfies.
SatisfiedRules ==
    {r \in 1..Len(rule_descriptions) :
       RuleSatisfied(r, LatestRow(consolidated_data, request.player_name), consolidated_data)}

\* C3: assign_priority_level returns the number of the first rule, in the
\* order 1..24 of the rule table, whose condition the player satisfies, and
\* 25 when the player satisfies none; of two satisfied rules the smaller
\* number is returned.
C3_FirstMatchingRule ==
    Called("assign_priority_level") =>
        LET satisfied == SatisfiedRules
        IN  /\ result.value = (IF satisfied = {} THEN 25 ELSE MinOf(satisfied))
            /\ \A r \in satisfied : result.value <= r

\* A player who satisfies rule 1 and rule 2 at once, and gets tier 1.
C3_Witness ==
    /\ Called("assign_priority_level")
    /\ {1, 2} \subseteq SatisfiedRules
    /\ result.value = 1

\* A player who satisfies no rule.
C3_WitnessDefault ==
    /\ Called("assign_priority_level")
    /\ SatisfiedRules = {}
    /\ result.value = 25

\* The lengths of the runs of consecutive records, in round order, that all
\* have a premium of at least the threshold.
GoodRunLengths(player_name, threshold) ==
    LET recs == RecordsOf(player_name)
        Between(a, b) == {r \in recs : a.Round <= r.Round /\ r.Round <= b.Round}
    IN  {Cardinality(Between(a, b)) :
           <<a, b>> \in {ab \in recs \X recs :
                          /\ ab[1].Round <= ab[2].Round
                          /\ \A r \in Between(ab[1], ab[2]) : PremiumOf(r) >= threshold}}

MaxOf(S) == CHOOSE x \in S : \A y \in S : x >= y

\* C9: check_consistent_performance returns the length of the longest run
\* of consecutive records (by ascending round) whose premium is at least the
\* threshold: 0 without records, the record count when every record meets
\* the threshold, and it does not depend on required_consecutive_weeks.
C9_LongestRun ==
    Called("check_consistent_performance") =>
        LET recs == RecordsOf(request.player_name)
            t == request.min_base_premium
        IN  /\ result.value = MaxOf(GoodRunLengths(request.player_name, t) \cup {0})
            /\ (recs = {} => result.value = 0)
            /\ ((\A r \in recs : PremiumOf(r) >= t) => result.value = Cardinality(recs))
            /\ \A w \in WeeksVals \cup {1, MaxRound + 1} :
                 check_consistent_performance(request.player_name, consolidated_data, t, w)
                   = result.value

\* A longest run of two or more rounds that was broken afterwards: the
\* latest record misses the threshold.
C9_Witness ==
    /\ Called("check_consistent_performance")
    /\ result.value >= 2
    /\ \E r \in RecordsOf(request.player_name) :
         /\ \A q \in RecordsOf(request.player_name) : q.Round <= r.Round
         /\ PremiumOf(r) < request.min_base_premium

\* C10 as claimed: calculate_average_bpre returns 0 for a player with fewer
\* than lookback records, calculate_average_base returns 0 for a player with
\* fewer than min_games records in the window, and neither averages a
\* window of fewer than lookback records.
C10_NoPartialWindow ==
    /\ Called("calculate_average_bpre") =>
         (Cardinality(RecordsOf(request.player_name)) < request.lookback_weeks
            => result.value = 0)
    /\ Called("calculate_average_base") =>
         LET window == MostRecentOf(request.player_name, request.lookback_weeks)
         IN  /\ Cardinality(window) < request.min_games => result.value = 0
             /\ Cardinality(window) < request.lookback_weeks => result.value = 0

\* C10, amended: calculate_average_bpre returns 0 for a player with fewer
\* than lookback records; calculate_average_base returns 0 exactly when the
\* player's window (the lookback most recent records of the player, fewer
\* when the player has fewer) holds fewer than min_games records, and
\* otherwise the truncated mean of the window, which may be partial.
C10_MinGamesWindow ==
    /\ Called("calculate_average_bpre") =>
         (Cardinality(RecordsOf(request.player_name)) < request.lookback_weeks
            => result.value = 0)
    /\ Called("calculate_average_base") =>
         LET window == MostRecentOf(request.player_name, request.lookback_weeks)
         IN  result.value =
               IF Cardinality(window) < request.min_games THEN 0
               ELSE TruncDiv(SumOfBases(window), Cardinality(window))

\* calculate_average_base averages a partial window: the player has at
\* least min_games records, fewer than lookback, and gets their mean.
C10_Witness ==
    /\ Called("calculate_average_base")
    /\ Cardinality(RecordsOf(request.player_name)) < request.lookback_weeks
    /\ Cardinality(RecordsOf(request.player_name)) >= request.min_games
    /\ result.value > 0


\* The latest record of the player of the call is a MID or EDG of 29 or more.
LatestIsOldForward ==
    LET row == LatestRow(consolidated_data, request.player_name)
    IN  row.POS \in {"MID", "EDG"} /\ row.Age >= 29

\* The player of the call has exactly three records, each with premium v,
\* and is not a MID/EDG of 29 or more.
ThreeRoundsOf(v) ==
    /\ Called("assign_priority_level")
    /\ Cardinality(RecordsOf(request.player_name)) = 3
    /\ \A r \in RecordsOf(request.player_name) : PremiumOf(r) = v
    /\ ~LatestIsOldForward

\* C13 as claimed: a player with three rounds of premium 2 gets the
\* default tier 25.
C13_DefaultTier == ThreeRoundsOf(2) => result.value = 25

\* C13, amended: a player whose whole history is three rounds of premium 2
\* (not a MID/EDG aged 29 or more) satisfies rule 22 (premium at least 2
\* for three weeks) and no earlier rule, and gets tier 22.
C13_Tier22 ==
    ThreeRoundsOf(2) => (result.value = 22 /\ SatisfiedRules = {22})

C13_Witness == ThreeRoundsOf(2) /\ result.value = 22

\* C18: a player whose latest record is a MID or EDG of 29 or more fails
\* every streak rule, has rolling average premium 0, and gets the default
\* tier 25 whatever the premiums.
C18_AgedForwardDefault ==
    (Called("assign_priority_level") /\ LatestIsOldForward)
    => LET row == LatestRow(consolidated_data, request.player_name)
       IN  /\ \A t \in BpreVals, w \in WeeksVals : ~StreakRule(row, consolidated_data, t, w)
           /\ \A l \in LookbackVals :
                 calculate_average_bpre(request.player_name, consolidated_data, l) = 0
           /\ result.value = 25

\* A MID of 29 whose premiums would otherwise satisfy rule 1.
C18_Witness ==
    /\ Called("assign_priority_level")
    /\ LatestIsOldForward
    /\ Cardinality(RecordsOf(request.player_name)) >= 3
    /\ \A r \in RecordsOf(request.player_name) : PremiumOf(r) >= 21
    /\ result.value = 25

\* <<T, W>> of the streak rules of the cascade
StreakRulePairs ==
    {<<14, 3>>, <<12, 3>>, <<10, 3>>, <<8, 3>>, <<6, 3>>, <<2, 3>>,
     <<21, 2>>, <<19, 2>>, <<17, 2>>, <<15, 2>>, <<13, 2>>, <<10, 2>>, <<8, 2>>, <<6, 2>>,
     <<4, 2>>}

\* C23: a streak rule 'premium >= T for the last W weeks' is satisfied by a
\* player only if each of the player's W most recent records has a premium
\* of at least T; an earlier run of W qualifying rounds that was broken
\* later does not satisfy it.
C23_TrailingStreak ==
    Called("assign_priority_level") =>
        \A tw \in StreakRulePairs :
           StreakRule(LatestRow(consolidated_data, request.player_name),
                      consolidated_data, tw[1], tw[2])
             => /\ Cardinality(RecordsOf(request.player_name)) >= tw[2]
                /\ \A r \in MostRecentOf(request.player_name, tw[2]) : PremiumOf(r) >= tw[1]

\* C30: a player with fewer than two records is assigned the default tier
\* 25 whatever the premium of the single record.
C30_SingleRecordDefault ==
    (Called("assign_priority_level") /\ Cardinality(RecordsOf(request.player_name)) < 2)
    => (result.value = 25 /\ SatisfiedRules = {})

\* One record, whose premium reaches every threshold of the cascade
C30_Witness ==
    /\ Called("assign_priority_level")
    /\ Cardinality(RecordsOf(request.player_name)) = 1
    /\ \A r \in RecordsOf(request.player_name) : PremiumOf(r) >= 26
    /\ ~LatestIsOldForward
    /\ result.value = 25

(***************************************************************************)
(* Properties of the combination search.                                   *)
(***************************************************************************)
SearchReturned ==
    Called("generate_comprehensive_trade_options") /\ result.outcome = "returned"

\* The candidates the search was called with, whatever their level.
Candidates == UNION {Range(priority_groups[level]) : level \in DOMAIN priority_groups}

CandidateNamed(name) == CHOOSE c \in Candidates : c.Player = name

\* <<i, m>>: member m of the returned option i
Members == {im \in (1..Len(result.value)) \X {1, 2} : im[2] <= Len(result.value[im[1]].players)}

MemberAt(im) == result.value[im[1]].players[im[2]]

\* The names of the members of the returned options
ReturnedNames == {MemberAt(im).name : im \in Members}

IsValue == ~request.maximize_base /\ ~request.hybrid_approach

\* C1: under every strategy, trade type and slot count, every option the
\* search returns has a total_price that is the sum of its members' prices
\* and is at most salary_freed.
C1_WithinBudget ==
    SearchReturned =>
        \A i \in 1..Len(result.value) :
            LET option == result.value[i]
            IN  /\ option.total_price
                     = SumSeq([m \in 1..Len(option.players) |->
                                  CandidateNamed(option.players[m].name).Price])
                /\ option.total_price <= request.salary_freed

\* The budget decided: a pair was returned that uses the whole of
\* salary_freed, and the two candidates left over cost more than that.
C1_Witness ==
    /\ SearchReturned
    /\ request.num_players_needed = 2
    /\ \E i \in 1..Len(result.value) : result.value[i].total_price = request.salary_freed
    /\ \E c \in Candidates, d \in Candidates :
         /\ c.Player # d.Player
         /\ {c.Player, d.Player} \cap {MemberAt(im).name : im \in Members} = {}
         /\ c.Price + d.Price > request.salary_freed

\* C2: within one search result no player is a member of two returned
\* options or twice a member of one option, under every strategy, trade type
\* and slot count, partners from a lower tier included.
C2_NoOverlap ==
    SearchReturned =>
        \A im \in Members, jn \in Members :
            im # jn => MemberAt(im).name # MemberAt(jn).name

\* The value strategy returned two pairs, one of them with a partner from
\* the next level.
C2_Witness ==
    /\ SearchReturned
    /\ IsValue
    /\ Len(result.value) = 2
    /\ \E i \in 1..2 :
         /\ Len(result.value[i].players) = 2
         /\ result.value[i].players[1].priority_level
              < result.value[i].players[2].priority_level

\* C4: for a like-for-like trade of two traded-out players (both with a
\* position), every returned two-player option has the multiset of its
\* members' positions equal to the multiset of the traded-out positions,
\* under the value, the production and the hybrid strategy.
C4_PositionMultiset ==
    (/\ SearchReturned
     /\ request.trade_type = "likeForLike"
     /\ Len(request.traded_out_positions) = 2)
    => \A i \in 1..Len(result.value) :
          LET option == result.value[i]
              out == request.traded_out_positions
          IN  Len(option.players) = 2 =>
                \/ /\ option.players[1].position = out[1]
                   /\ option.players[2].position = out[2]
                \/ /\ option.players[1].position = out[2]
                   /\ option.players[2].position = out[1]

\* A like-for-like pair was returned by the value strategy although an
\* unused candidate of another position was affordable with its first
\* member.
C4_Witness ==
    /\ SearchReturned
    /\ IsValue
    /\ request.trade_type = "likeForLike"
    /\ Len(request.traded_out_positions) = 2
    /\ Len(result.value) = 1
    /\ \E c \in Candidates :
         /\ c.POS \notin Range(request.traded_out_positions)
         /\ c.Price + result.value[1].players[1].price <= request.salary_freed

\* C8: the list returned holds at most max_options options and is the
\* prefix, of that length or of all the accepted options when they are
\* fewer, of the options in the order the search accepted them.
C8_AtMostMaxOptions ==
    SearchReturned =>
        LET n == Len(result.value)
        IN  /\ n <= request.max_options
            /\ n <= Len(valid_combinations)
            /\ n = request.max_options \/ n = Len(valid_combinations)
            /\ \A i \in 1..n : result.value[i] = valid_combinations[i]

\* The search accepted more than max_options options and the slice cut
\* the list.
C8_Witness ==
    /\ SearchReturned
    /\ Len(valid_combinations) > request.max_options
    /\ Len(result.value) = request.max_options

CalledAgain == pc = "again" /\ request.op = "generate_comprehensive_trade_options"

\* C11: a second call of the search with the same arguments returns the
\* same options in the same order as the first, for every strategy and
\* trade type.
C11_SecondCallSame ==
    CalledAgain => result = previous_result

\* The candidates the search considers: all of them, or for a like-for-like
\* trade those with a traded-out position.
Eligible ==
    {c \in Candidates :
       IsLikeForLike(request.trade_type, request.traded_out_positions)
         => c.POS \in Range(request.traded_out_positions)}

FirstTier(i) == result.value[i].players[1].priority_level

\* C12: under the value strategy the tier of the first-listed player is
\* non-decreasing along the returned list, and with one slot every
\* affordable candidate of a better tier than a returned one is returned
\* before it.
C12_TierAscending ==
    (SearchReturned /\ IsValue) =>
        /\ \A i \in 1..Len(result.value), j \in 1..Len(result.value) :
              i < j => FirstTier(i) <= FirstTier(j)
        /\ request.num_players_needed = 1 =>
              \A j \in 1..Len(result.value) :
                 \A c \in Eligible :
                    (c.Price <= request.salary_freed /\ c.priority_level < FirstTier(j))
                      => \E i \in 1..(j - 1) : result.value[i].players[1].name = c.Player

\* One slot: a candidate of the better tier is returned before a candidate
\* of the worse tier that has the greater avg_bpre.
C12_Witness ==
    /\ SearchReturned
    /\ IsValue
    /\ request.num_players_needed = 1
    /\ Len(result.value) >= 2
    /\ FirstTier(1) < FirstTier(2)
    /\ result.value[1].players[1].avg_bpre < result.value[2].players[1].avg_bpre

\* C19: with one slot, under each strategy, every returned option holds
\* exactly one player, and when fewer than max_options options are returned
\* every eligible candidate within the budget is in a returned option.
C19_OneSlotComplete ==
    (SearchReturned /\ request.num_players_needed = 1) =>
        /\ \A i \in 1..Len(result.value) : Len(result.value[i].players) = 1
        /\ Len(result.value) < request.max_options =>
              \A c \in Eligible :
                 c.Price <= request.salary_freed => c.Player \in ReturnedNames

\* Fewer options than the cap, although a candidate over the budget stands
\* in its list before a returned one.
C19_Witness ==
    /\ SearchReturned
    /\ request.num_players_needed = 1
    /\ Len(result.value) >= 1
    /\ Len(result.value) < request.max_options
    /\ \E level \in DOMAIN priority_groups :
          \E i \in 1..Len(priority_groups[level]), j \in 1..Len(priority_groups[level]) :
             /\ i < j
             /\ priority_groups[level][i] \in Eligible
             /\ priority_groups[level][i].Price > request.salary_freed
             /\ priority_groups[level][j].Player \in ReturnedNames

\* C21: for every strategy, trade type, slot count and list of traded-out
\* positions (two traded-out players of the same position included) the
\* search runs to completion and returns a list of options; it never ends
\* with an exception.
C21_SearchCompletes ==
    Called("generate_comprehensive_trade_options") => result.outcome = "returned"

\* Two candidates of one tier, within the budget together, whose positions
\* are the traded-out positions, each counted as often as it occurs
FittingPairInTier ==
    \E c \in Eligible, d \in Eligible :
       /\ c.Player # d.Player
       /\ c.priority_level = d.priority_level
       /\ c.Price + d.Price <= request.salary_freed
       /\ <<c.POS, d.POS>> \in {request.traded_out_positions,
                                Reverse(request.traded_out_positions)}

\* C22: under the value strategy with two slots and a like-for-like trade,
\* when some tier holds two candidates within the budget together whose
\* positions are the traded-out positions (the two of them equal included),
\* the search accepts a pair and the result is not empty.
C22_LikeForLikePairFound ==
    (/\ SearchReturned
     /\ IsValue
     /\ request.trade_type = "likeForLike"
     /\ request.num_players_needed = 2
     /\ Len(request.traded_out_positions) = 2
     /\ FittingPairInTier)
    => result.value # <<>>

\* The players used when option k was accepted: the members of the options
\* accepted before it
UsedBefore(k) ==
    {valid_combinations[i].players[m].name :
        <<i, m>> \in {im \in (1..(k - 1)) \X {1, 2} :
                         im[2] <= Len(valid_combinations[im[1]].players)}}

\* The candidates that could stand second in option k when it was accepted:
\* unused, not the first player, within the budget left by the first
\* player and, for like-for-like, of the position the first player leaves
\* unmatched.
FittingSeconds(k) ==
    LET first == result.value[k].players[1]
        others == OtherPositions(request.traded_out_positions, first.position)
    IN  {c \in Eligible :
           /\ c.Player \notin UsedBefore(k)
           /\ c.Player # first.name
           /\ first.price + c.Price <= request.salary_freed
           /\ IsLikeForLike(request.trade_type, request.traded_out_positions)
                => (others # <<>> /\ c.POS = others[1])}

\* C24: under the value strategy with two slots, a partner taken from a
\* lower-priority tier comes from the nearest lower-priority tier that has
\* a fitting unused candidate, and is the first of that tier's fitting
\* candidates in descending avg_bpre order.
C24_NearestTierBestPartner ==
    (SearchReturned /\ IsValue /\ request.num_players_needed = 2) =>
        \A k \in 1..Len(result.value) :
           LET first == result.value[k].players[1]
               second == result.value[k].players[2]
           IN  first.priority_level < second.priority_level =>
                 \A c \in FittingSeconds(k) :
                    c.priority_level > first.priority_level =>
                       \/ second.priority_level < c.priority_level
                       \/ /\ second.priority_level = c.priority_level
                          /\ second.avg_bpre >= c.avg_bpre

\* C25: in every two-player option returned under the hybrid strategy the
\* second player has the greatest avg_base among the candidates that, when
\* the option was accepted, were unused, not the first player, priced at
\* most the budget minus the first player's price and, for like-for-like,
\* of the required position.
C25_HybridSecondBestBase ==
    (SearchReturned /\ request.hybrid_approach /\ ~request.maximize_base
       /\ request.num_players_needed = 2) =>
        \A k \in 1..Len(result.value) :
           /\ result.value[k].players[2].name \in {c.Player : c \in FittingSeconds(k)}
           /\ \A c \in FittingSeconds(k) : result.value[k].players[2].avg_base >= c.avg_base

\* The second player of a hybrid pair has a greater avg_base than a fitting
\* candidate of a better tier, which stands before it in value order.
C25_Witness ==
    /\ SearchReturned
    /\ request.hybrid_approach /\ ~request.maximize_base
    /\ request.num_players_needed = 2
    /\ \E k \in 1..Len(result.value) : \E c \in FittingSeconds(k) :
          /\ c.priority_level < result.value[k].players[2].priority_level
          /\ c.avg_base < result.value[k].players[2].avg_base

\* C26: under the value strategy two candidates of one tier with equal
\* avg_bpre are taken in descending order of current-round premium: with
\* one slot the one with the greater premium is returned first.
C26_PremiumBreaksTies ==
    (SearchReturned /\ IsValue /\ request.num_players_needed = 1) =>
        \A i \in 1..Len(result.value), j \in 1..Len(result.value) :
           LET x == result.value[i].players[1]
               y == result.value[j].players[1]
           IN  (i < j /\ x.priority_level = y.priority_level /\ x.avg_bpre = y.avg_bpre)
                 => x.base_premium >= y.base_premium

IsProduction == request.maximize_base

\* C27: under the production strategy the first players of the returned
\* options are in non-increasing avg_base whatever their tiers, and of two
\* candidates with equal avg_base the one with the greater current-round
\* production is taken first.
C27_ProductionOrder ==
    (SearchReturned /\ IsProduction) =>
        \A i \in 1..Len(result.value), j \in 1..Len(result.value) :
           LET x == result.value[i].players[1]
               y == result.value[j].players[1]
           IN  i < j =>
                 /\ x.avg_base >= y.avg_base
                 /\ (request.num_players_needed = 1 /\ x.avg_base = y.avg_base)
                      => x.total_base >= y.total_base

\* The sum of f over the members of an option, looked up in the candidates
MemberSum(option, f(_)) ==
    SumSeq([m \in 1..Len(option.players) |-> f(CandidateNamed(option.players[m].name))])

\* C28: every returned option has as many members as players are needed
\* (one for each traded-out player), its total_price, total_base and
\* total_base_premium are the sums over its members, and salary_remaining
\* is the budget minus total_price and is not negative.
C28_OptionTotals ==
    SearchReturned =>
        \A i \in 1..Len(result.value) :
           LET option == result.value[i]
           IN  /\ Len(option.players) = request.num_players_needed
               /\ option.total_price = MemberSum(option, LAMBDA c : c.Price)
               /\ option.total_base = MemberSum(option, LAMBDA c : c.Total_base)
               /\ option.total_base_premium
                    = MemberSum(option, LAMBDA c : c.Base_exceeds_price_premium)
               /\ option.salary_remaining = request.salary_freed - option.total_price
               /\ option.salary_remaining >= 0

\* A pair of members with different Total base and different premium, with
\* salary left over.
C28_Witness ==
    /\ SearchReturned
    /\ request.num_players_needed = 2
    /\ \E i \in 1..Len(result.value) :
          LET option == result.value[i]
          IN  /\ option.players[1].total_base # option.players[2].total_base
              /\ option.total_base = 22
              /\ option.salary_remaining > 0
    /\ \E i \in 1..Len(result.value) :
          result.value[i].total_base_premium = 12

\* C29: generate_comprehensive_trade_options leaves the caller's
\* priority_groups as it was: every tier's list holds the same candidates
\* in the same order after the call, for every strategy and trade type.
C29_InputUnchanged ==
    [][CallGenerateOptions => priority_groups' = priority_groups]_vars

(***************************************************************************)
(* Properties of calculate_trade_options.                                  *)
(***************************************************************************)
TradeCalled == Called("calculate_trade_options")

TradeReturned == TradeCalled /\ result.outcome = "returned"

\* The traded-out players of the call that have no record in the history
UnknownTradedOut ==
    {request.traded_out_players[i] : i \in 1..Len(request.traded_out_players)}
      \ PlayersOf(consolidated_data)

\* C5: when a traded-out player has no record in the history,
\* calculate_trade_options ends in an error or with an empty list, and does
\* not compute options with that player's salary taken as zero.
C5_UnknownPlayerRejected ==
    (TradeCalled /\ UnknownTradedOut # {}) =>
        \/ result.outcome = "raised"
        \/ result.outcome = "returned" /\ result.value = <<>>

\* Kickoff at or before the simulated time, field by field
AtOrBefore(kickoff, simulated) == kickoff = simulated \/ TupleLess(kickoff, simulated)

\* The teams of the fixtures that kick off at or before the simulated time
TeamsKickedOff(simulated) ==
    {team \in UNION {Range(fixtures[i][2]) : i \in 1..Len(fixtures)} :
       \E i \in 1..Len(fixtures) :
          team \in Range(fixtures[i][2]) /\ AtOrBefore(fixtures[i][1], simulated)}

\* The team of the record of the player with the greatest round
LatestTeam(player_name) ==
    (CHOOSE r \in RecordsOf(player_name) :
        \A q \in RecordsOf(player_name) : q.Round <= r.Round).Team

\* C6: with the lockout applied at a simulated time, every team of a
\* fixture that kicks off at or before that time (at that time included) is
\* locked out, and no returned option holds a player whose latest record is
\* for a locked-out team, whatever the player's tier.
C6_LockedOutExcluded ==
    (TradeCalled /\ request.apply_lockout /\ request.simulate_datetime # NoDatetime) =>
        /\ locked_out_teams(strptime(request.simulate_datetime))
             = TeamsKickedOff(request.simulate_datetime)
        /\ get_locked_out_players(request.simulate_datetime, consolidated_data)
             = {p \in PlayersOf(consolidated_data) :
                  LatestTeam(p) \in TeamsKickedOff(request.simulate_datetime)}
        /\ result.outcome = "returned" =>
             \A name \in ReturnedNames :
                LatestTeam(name) \notin TeamsKickedOff(request.simulate_datetime)

\* The simulated time is the kickoff of the first fixture; the tier 1
\* candidate "a" has moved to a team of that fixture and is in no returned
\* option, while another candidate is.
C6_Witness ==
    /\ TradeReturned
    /\ request.apply_lockout
    /\ request.simulate_datetime = fixtures[1][1]
    /\ LatestTeam("a") \in Range(fixtures[1][2])
    /\ "a" \notin ReturnedNames
    /\ ReturnedNames # {}

\* The outcomes of the same request with the lockout not applied
WithoutLockout ==
    {run.result : run \in
        calculate_trade_options(consolidated_data, request.traded_out_players,
            request.maximize_base, request.hybrid_approach, request.max_options,
            request.allowed_positions, request.trade_type, request.min_games,
            request.team_list, request.simulate_datetime, FALSE)}

\* C7: when the lockout is requested without a simulated time,
\* calculate_trade_options does not fail and returns the options it returns
\* for the same request with the lockout not applied.
C7_LockoutWithoutTime ==
    (TradeCalled /\ request.apply_lockout /\ request.simulate_datetime = NoDatetime) =>
        /\ result.outcome = "returned"
        /\ \E res \in WithoutLockout : res.outcome = "returned" /\ res.value = result.value

\* C14: no option calculate_trade_options returns holds a player of
\* traded_out_players.
C14_NoTradedOutReturned ==
    TradeReturned => ReturnedNames \cap Range(request.traded_out_players) = {}

\* The salary freed by "t1" and "t2" would pay for either of them, and
\* options are returned for other players.
C14_Witness ==
    /\ TradeReturned
    /\ request.traded_out_players = <<"t1", "t2">>
    /\ \E name \in ReturnedNames :
          LatestRow(consolidated_data, name).Price
            >= LatestRow(consolidated_data, "t1").Price
    /\ ReturnedNames \cap {"t1", "t2"} = {}

\* The three highest distinct rounds of the history
HighestThreeRounds ==
    LET rounds == {consolidated_data[i].Round : i \in 1..Len(consolidated_data)}
    IN  {r \in rounds : Cardinality({q \in rounds : q > r}) <= 2}

\* C15: every player of a returned option has a record in one of the three
\* highest distinct rounds of the history.
C15_PlayedRecently ==
    TradeReturned =>
        \A name \in ReturnedNames :
           \E r \in RecordsOf(name) : r.Round \in HighestThreeRounds

\* "e", within the budget and last seen four rounds back, is in no
\* returned option while other players are.
C15_Witness ==
    /\ TradeReturned
    /\ request.trade_type = "positionalSwap"
    /\ request.allowed_positions = NoAllowedPositions
    /\ request.team_list = NoTeamList
    /\ ~request.apply_lockout
    /\ RecordsOf("e") # {}
    /\ \A r \in RecordsOf("e") : r.Round \notin HighestThreeRounds
    /\ ReturnedNames # {}
    /\ "e" \notin ReturnedNames

\* The players with a record in the three highest rounds who are not
\* traded out
RecentCandidates ==
    {name \in PlayersOf(consolidated_data) \ Range(request.traded_out_players) :
       \E r \in RecordsOf(name) : r.Round \in HighestThreeRounds}

\* C16: with the team-list restriction active, for any supplied list (the
\* empty list and a list with no candidate included) every player of a
\* returned option is in the list, and when the list holds no candidate the
\* call returns the empty list and does not raise.
C16_TeamListRestricts ==
    (TradeCalled /\ request.restrict_to_team_list) =>
        /\ result.outcome = "returned" => ReturnedNames \subseteq Range(request.team_list)
        /\ RecentCandidates \cap Range(request.team_list) = {}
             => (result.outcome = "returned" /\ result.value = <<>>)

\* The results of the same request with no allowed_positions
WithoutAllowedPositions ==
    {run.result : run \in
        calculate_trade_options(consolidated_data, request.traded_out_players,
            request.maximize_base, request.hybrid_approach, request.max_options,
            NoAllowedPositions, request.trade_type, request.min_games,
            request.team_list, request.simulate_datetime, request.apply_lockout)}

\* C17: for a positionalSwap trade with a supplied allowed_positions (the
\* empty one included) every player of a returned option has a position in
\* it; for a likeForLike trade allowed_positions does not change the result.
C17_AllowedPositions ==
    /\ (TradeReturned /\ request.trade_type = "positionalSwap") =>
          \A im \in Members : MemberAt(im).position \in Range(request.allowed_positions)
    /\ (TradeCalled /\ request.trade_type = "likeForLike") =>
          result \in WithoutAllowedPositions

\* The candidates left by each step of the request, in the order of the
\* steps: recent and not traded out, in the team list, not locked out, of
\* an allowed position.
Survivors ==
    LET in_list == IF request.restrict_to_team_list
                   THEN RecentCandidates \cap Range(request.team_list)
                   ELSE RecentCandidates
        unlocked == IF request.apply_lockout
                    THEN in_list \ get_locked_out_players(request.simulate_datetime,
                                                          consolidated_data)
                    ELSE in_list
        positioned == IF request.trade_type = "positionalSwap"
                         /\ request.allowed_positions # NoAllowedPositions
                      THEN {name \in unlocked :
                              LatestRow(consolidated_data, name).POS
                                \in Range(request.allowed_positions)}
                      ELSE unlocked
    IN  <<RecentCandidates, in_list, unlocked, positioned>>

\* C20: whenever a filtering step leaves no candidate,
\* calculate_trade_options returns the empty list and does not raise.
C20_EmptyPoolReturnsEmpty ==
    (TradeCalled /\ \E k \in 1..4 : Survivors[k] = {}) =>
        (result.outcome = "returned" /\ result.value = <<>>)

=============================================================================
